---- MODULE Spec2Model ----
(***************************************************************************)
(* Model of the pipeline driver go() of main.py.                           *)
(*                                                                         *)
(* Strings are sequences of lexemes (a step name, "all", ",", " " are      *)
(* single lexemes), configuration keys and filesystem paths are sequences  *)
(* of components.  The configuration is immutable during a run: the value  *)
(* of main.steps, the subtree that is absent from the configuration (if    *)
(* any) and the modeling.random_forest block are fixed by Init.            *)
(***************************************************************************)
EXTENDS Integers, Sequences, FiniteSets, TLC

VARIABLES
    steps_par,      \* the string config['main']['steps']
    removed,        \* key path of the subtree absent from the configuration, <<>> if none
    random_forest,  \* config['modeling']['random_forest'] as a sequence of <<key, value>> items
    env,            \* names of the environment variables set by go()
    active_steps,   \* the list active_steps
    pc,             \* position of go()
    idx,            \* which of the six if-blocks go() is at
    tmpExists,      \* whether the TemporaryDirectory exists on disk
    files,          \* regular files on disk: set of [path, content]
    invoked,        \* the mlflow.run calls made so far, in order
    error           \* the exception that left go(), if any

vars == <<steps_par, removed, random_forest, env, active_steps, pc, idx,
          tmpExists, files, invoked, error>>

----------------------------------------------------------------------------
(* Bounds of the explored inputs *)

MaxNames == 2       \* number of comma-separated elements in main.steps
MaxRfKeys == 2      \* number of items of modeling.random_forest

----------------------------------------------------------------------------
(* Sequences *)

Range(s) == {s[i] : i \in DOMAIN s}

IsPrefix(p, s) == Len(p) <= Len(s) /\ SubSeq(s, 1, Len(p)) = p

SeqsUpTo(S, n) == UNION {[1..k -> S] : k \in 0..n}

----------------------------------------------------------------------------
(* The step registry and the if-blocks of go() *)

_stepsWithTest ==
    <<"download", "basic_cleaning", "data_check", "data_split",
      "train_random_forest", "test_regression_model">>

_steps ==
    <<"download", "basic_cleaning", "data_check", "data_split",
      "train_random_forest">>

\* the names tested by the six `if "..." in active_steps` blocks, in code order
Blocks ==
    <<"download", "basic_cleaning", "data_check", "data_split",
      "train_random_forest", "test_regression_model">>

ALL == <<"all">>

----------------------------------------------------------------------------
(* str.split(",") *)

RECURSIVE SplitFrom(_, _, _)
\* s: remaining lexemes, cur: the element being read, acc: the elements read
SplitFrom(s, cur, acc) ==
    IF s = <<>> THEN Append(acc, cur)
    ELSE IF Head(s) = "," THEN SplitFrom(Tail(s), <<>>, Append(acc, cur))
    ELSE SplitFrom(Tail(s), Append(cur, Head(s)), acc)

\* s.split(",")
Split(s) == SplitFrom(s, <<>>, <<>>)

\* a step name as a one-lexeme string
Str(name) == <<name>>

SelectAllWithTest(s) ==
    IF s # ALL THEN Split(s)
    ELSE [i \in DOMAIN _stepsWithTest |-> Str(_stepsWithTest[i])]

\* steps_par.split(",") if steps_par != "all" else _steps
SelectActive(s) ==
    IF s # ALL THEN Split(s) ELSE [i \in DOMAIN _steps |-> Str(_steps[i])]

\* the name occurs somewhere inside an element
IsActiveSubstring(name, active) == \E i \in DOMAIN active : name \in Range(active[i])

IsActiveExceptTest(name, active) ==
    name # "test_regression_model" /\ \E i \in DOMAIN active : active[i] = Str(name)

\* "<name>" in active_steps
IsActive(name, active) == \E i \in DOMAIN active : active[i] = Str(name)

----------------------------------------------------------------------------
(* Configuration keys *)

\* config[k1][k2]... raises when the key, or a section on the way to it, is absent
AbsentNever(key) == FALSE

Absent(key) == removed # <<>> /\ IsPrefix(removed, key)

\* keys read before the temporary directory is created
ProjectKey == <<"main", "project_name">>
GroupKey == <<"main", "experiment_name">>
StepsKey == <<"main", "steps">>
RepositoryKey == <<"main", "components_repository">>
RandomForestKey == <<"modeling", "random_forest">>

\* the `parameters` dictionaries: parameter name -> configuration key
ParamKeys(step) ==
    CASE step = "download" ->
           [sample |-> <<"etl", "sample">>,
            artifact_name |-> <<"m_params", "download", "artifact_name">>,
            artifact_type |-> <<"m_params", "download", "artifact_type">>,
            artifact_description |-> <<"m_params", "download", "artifact_description">>]
      [] step = "basic_cleaning" ->
           [input_artifact |-> <<"m_params", "basic_cleaning", "input_artifact">>,
            output_artifact |-> <<"m_params", "basic_cleaning", "output_artifact">>,
            output_type |-> <<"m_params", "basic_cleaning", "output_type">>,
            output_description |-> <<"m_params", "basic_cleaning", "output_description">>,
            min_price |-> <<"etl", "min_price">>,
            max_price |-> <<"etl", "max_price">>]
      [] step = "data_check" ->
           [csv |-> <<"m_params", "data_check", "csv">>,
            ref |-> <<"m_params", "data_check", "ref">>,
            kl_threshold |-> <<"data_check", "kl_threshold">>,
            min_price |-> <<"etl", "min_price">>,
            max_price |-> <<"etl", "max_price">>]
      [] step = "data_split" ->
           [input |-> <<"m_params", "data_split", "input">>,
            test_size |-> <<"modeling", "test_size">>,
            random_seed |-> <<"modeling", "random_seed">>,
            stratify_by |-> <<"modeling", "stratify_by">>]
      [] step = "train_random_forest" ->
           [trainval_artifact |-> <<"m_params", "train_random_forest", "trainval_artifact">>,
            val_size |-> <<"modeling", "val_size">>,
            random_seed |-> <<"modeling", "random_seed">>,
            stratify_by |-> <<"modeling", "stratify_by">>,
            max_tfidf_features |-> <<"modeling", "max_tfidf_features">>,
            output_artifact |-> <<"m_params", "train_random_forest", "output_artifact">>]
      [] step = "test_regression_model" ->
           [mlflow_model |-> <<"m_params", "test_regression_model", "mlflow_model">>,
            test_dataset |-> <<"m_params", "test_regression_model", "test_dataset">>]

\* the first argument of mlflow.run: where the unit lives
Uri(step) ==
    CASE step = "download" -> [kind |-> "remote", name |-> "get_data"]
      [] step = "basic_cleaning" -> [kind |-> "local", name |-> "basic_cleaning"]
      [] step = "data_check" -> [kind |-> "local", name |-> "data_check"]
      [] step = "data_split" -> [kind |-> "remote", name |-> "train_val_test_split"]
      [] step = "train_random_forest" -> [kind |-> "local", name |-> "train_random_forest"]
      [] step = "test_regression_model" -> [kind |-> "remote", name |-> "test_regression_model"]

\* mlflow.run's default for an omitted version argument
NoVersion == "None"

\* the version argument of mlflow.run
Version(step) == IF step = "download" THEN "main" ELSE NoVersion

\* the entry point argument of mlflow.run
EntryPoint(step) == "main"

\* keys read while the arguments of the step's mlflow.run call are evaluated
CallKeys(step) ==
    Range(ParamKeys(step))
        \cup (IF Uri(step).kind = "remote" THEN {RepositoryKey} ELSE {})

----------------------------------------------------------------------------
(* Filesystem *)

\* the directory tempfile.TemporaryDirectory() creates
tmp_dir == <<"tmp", "tmpdir">>

\* the process working directory (go() never changes it)
cwd == <<"cwd">>

RfConfigPathInTmp == tmp_dir \o <<"rf_config.json">>

\* os.path.abspath("rf_config.json")
RfConfigPath == cwd \o <<"rf_config.json">>

Inside(path, dir) == IsPrefix(dir, path) /\ path # dir

\* open(path, "w+") followed by writes: the file is created or replaced
WriteFile(fs, path, content) ==
    {f \in fs : f.path # path} \cup {[path |-> path, content |-> content]}

\* TemporaryDirectory cleanup: the directory and everything in it are removed
RemoveTree(fs, dir) == {f \in fs : ~Inside(f.path, dir)}

TmpKeptOnError(raised) == raised

\* whether the temporary directory is on disk after the with block is left
TmpAfterExit(raised) == FALSE

----------------------------------------------------------------------------
(* json.dump of dict(config["modeling"]["random_forest"].items()) *)

PyInt(lex) == [t |-> "int", v |-> <<lex>>]
PyFloat(whole, frac) == [t |-> "float", v |-> <<whole, ".", frac>>]
PyBool(b) == [t |-> "bool", v |-> <<b>>]
PyStr(lex) == [t |-> "str", v |-> <<lex>>]
PyNone == [t |-> "NoneType", v |-> <<"None">>]
PyDictConfig == [t |-> "DictConfig", v |-> <<>>]

\* the types the JSON encoder accepts; anything else raises TypeError
Serializable(val) == val.t \in {"int", "float", "bool", "str", "NoneType"}

JsonEncodeBoolAsInt(val) ==
    CASE val.t = "str" -> [j |-> "string", s |-> val.v]
      [] val.t = "NoneType" -> [j |-> "null", s |-> <<>>]
      [] val.t = "bool" -> [j |-> "number", s |-> IF val.v = <<"True">> THEN <<"1">> ELSE <<"0">>]
      [] val.t \in {"int", "float"} -> [j |-> "number", s |-> val.v]

\* the JSON text of one value
JsonEncode(val) ==
    CASE val.t = "str" -> [j |-> "string", s |-> val.v]
      [] val.t = "NoneType" -> [j |-> "null", s |-> <<>>]
      [] val.t = "bool" -> [j |-> IF val.v = <<"True">> THEN "true" ELSE "false", s |-> <<>>]
      [] val.t \in {"int", "float"} -> [j |-> "number", s |-> val.v]

\* number of leading items json.dump writes before it stops
RECURSIVE Written(_)
Written(items) ==
    IF items = <<>> \/ ~Serializable(Head(items)[2]) THEN 0
    ELSE 1 + Written(Tail(items))

\* what json.dump leaves in the file
JsonDump(items) ==
    LET n == Written(items) IN
    [items |-> [i \in 1..n |-> <<items[i][1], JsonEncode(items[i][2])>>],
     complete |-> n = Len(items)]

\* reading one JSON value back
JsonDecode(tok) ==
    CASE tok.j = "string" -> [t |-> "str", v |-> tok.s]
      [] tok.j = "null" -> PyNone
      [] tok.j = "true" -> PyBool("True")
      [] tok.j = "false" -> PyBool("False")
      [] tok.j = "number" ->
           [t |-> IF "." \in Range(tok.s) THEN "float" ELSE "int", v |-> tok.s]

\* the mapping an item list denotes (a later item replaces an earlier one)
DictOf(items) ==
    [k \in {items[i][1] : i \in DOMAIN items} |->
        LET last == CHOOSE i \in DOMAIN items :
                        items[i][1] = k /\ \A j \in DOMAIN items : items[j][1] = k => j <= i
        IN items[last][2]]

\* json.load of a file json.dump completed
JsonLoad(content) ==
    DictOf([i \in DOMAIN content.items |->
               <<content.items[i][1], JsonDecode(content.items[i][2])>>])

----------------------------------------------------------------------------
(* The mlflow.run call of a step *)

ConfigValue(key) == [kind |-> "config", ref |-> key]
PathValue(path) == [kind |-> "path", ref |-> path]

\* the resolved parameter record
Parameters(step) ==
    LET pk == ParamKeys(step)
        fromConfig == [n \in DOMAIN pk |-> ConfigValue(pk[n])]
    IN IF step = "train_random_forest"
         THEN fromConfig @@ [rf_config |-> PathValue(RfConfigPath)]
         ELSE fromConfig

Call(step) ==
    [step |-> step,
     uri |-> Uri(step),
     entry_point |-> EntryPoint(step),
     version |-> Version(step),
     parameters |-> Parameters(step),
     status |-> "running"]

----------------------------------------------------------------------------
(* The explored configurations *)

RECURSIVE Join(_)
\* ",".join(list)
Join(list) ==
    IF list = <<>> THEN <<>>
    ELSE IF Len(list) = 1 THEN list[1]
    ELSE list[1] \o <<",">> \o Join(Tail(list))

\* the elements main.steps is built from: the six names, the sentinel, an
\* unknown name, the empty string and a name with leading whitespace
NameElems ==
    {Str(Blocks[i]) : i \in DOMAIN Blocks}
        \cup {ALL, Str("unknown_step"), <<>>, <<" ", "data_check">>}

StepsParInputs == {Join(l) : l \in SeqsUpTo(NameElems, MaxNames)}

\* selections made of known names only, and the sentinel
KnownStepsParInputs ==
    {Join(l) : l \in SeqsUpTo({Str(Blocks[i]) : i \in DOMAIN Blocks}, MaxNames)}
        \cup {ALL}

AllKeys ==
    {ProjectKey, GroupKey, StepsKey, RepositoryKey, RandomForestKey}
        \cup UNION {Range(ParamKeys(Blocks[i])) : i \in DOMAIN Blocks}

\* nothing removed, or one key or one whole section removed
RemovedInputs ==
    {<<>>} \cup UNION {{SubSeq(k, 1, n) : n \in 1..Len(k)} : k \in AllKeys}

RfKeys == {"n_estimators", "max_depth", "criterion"}

RfValues ==
    {PyInt("100"), PyInt("10"), PyFloat("0", "5"), PyBool("True"),
     PyStr("squared_error"), PyNone, PyDictConfig}

RfInputs ==
    {items \in SeqsUpTo(RfKeys \X RfValues, MaxRfKeys) :
        \A i, j \in DOMAIN items : items[i][1] = items[j][1] => i = j}

DefaultRf == <<<<"n_estimators", PyInt("100")>>, <<"max_depth", PyInt("10")>>>>

NoError == [type |-> "none", at |-> "none"]

----------------------------------------------------------------------------
(* go() *)

Init ==
    /\ \/ /\ steps_par \in StepsParInputs
          /\ removed = <<>>
          /\ random_forest = DefaultRf
       \/ /\ steps_par \in KnownStepsParInputs
          /\ removed \in RemovedInputs
          /\ random_forest = DefaultRf
       \/ /\ steps_par \in {ALL, Str("train_random_forest")}
          /\ removed = <<>>
          /\ random_forest \in RfInputs
    /\ env = {}
    /\ active_steps = <<>>
    /\ pc = "start"
    /\ idx = 0
    /\ tmpExists = FALSE
    /\ files = {}
    /\ invoked = <<>>
    /\ error = NoError

\* os.environ["WANDB_PROJECT"] = config["main"]["project_name"]
SetProject ==
    /\ pc = "start"
    /\ ~Absent(ProjectKey)
    /\ env' = env \cup {"WANDB_PROJECT"}
    /\ pc' = "set_group"
    /\ UNCHANGED <<steps_par, removed, random_forest, active_steps, idx,
                   tmpExists, files, invoked, error>>

\* os.environ["WANDB_RUN_GROUP"] = config["main"]["experiment_name"]
SetRunGroup ==
    /\ pc = "set_group"
    /\ ~Absent(GroupKey)
    /\ env' = env \cup {"WANDB_RUN_GROUP"}
    /\ pc' = "select"
    /\ UNCHANGED <<steps_par, removed, random_forest, active_steps, idx,
                   tmpExists, files, invoked, error>>

\* active_steps = steps_par.split(",") if steps_par != "all" else _steps
SelectSteps ==
    /\ pc = "select"
    /\ ~Absent(StepsKey)
    /\ active_steps' = SelectActive(steps_par)
    /\ pc' = "mktemp"
    /\ UNCHANGED <<steps_par, removed, random_forest, env, idx,
                   tmpExists, files, invoked, error>>

\* a key read before the with block is absent: the exception leaves go()
SetupKeyError ==
    /\ \/ pc = "start" /\ Absent(ProjectKey)
       \/ pc = "set_group" /\ Absent(GroupKey)
       \/ pc = "select" /\ Absent(StepsKey)
    /\ pc' = "raised"
    /\ error' = [type |-> "ConfigKeyError", at |-> "setup"]
    /\ UNCHANGED <<steps_par, removed, random_forest, env, active_steps, idx,
                   tmpExists, files, invoked>>

\* with tempfile.TemporaryDirectory() as tmp_dir:
EnterTmp ==
    /\ pc = "mktemp"
    /\ tmpExists' = TRUE
    /\ idx' = 1
    /\ pc' = "check"
    /\ UNCHANGED <<steps_par, removed, random_forest, env, active_steps,
                   files, invoked, error>>

\* if "<name>" in active_steps: is false
SkipStep ==
    /\ pc = "check"
    /\ idx \in DOMAIN Blocks
    /\ ~IsActive(Blocks[idx], active_steps)
    /\ idx' = idx + 1
    /\ UNCHANGED <<steps_par, removed, random_forest, env, active_steps, pc,
                   tmpExists, files, invoked, error>>

\* if "<name>" in active_steps: is true
EnterStep ==
    /\ pc = "check"
    /\ idx \in DOMAIN Blocks
    /\ IsActive(Blocks[idx], active_steps)
    /\ pc' = IF Blocks[idx] = "train_random_forest" THEN "serialize" ELSE "call"
    /\ UNCHANGED <<steps_par, removed, random_forest, env, active_steps, idx,
                   tmpExists, files, invoked, error>>

\* rf_config.json is opened and the hyperparameters are dumped into it
SerializeRfConfig ==
    /\ pc = "serialize"
    /\ ~Absent(RandomForestKey)
    /\ JsonDump(random_forest).complete
    /\ files' = WriteFile(files, RfConfigPath, JsonDump(random_forest))
    /\ pc' = "call"
    /\ UNCHANGED <<steps_par, removed, random_forest, env, active_steps, idx,
                   tmpExists, invoked, error>>

\* the file is open (and empty) when config["modeling"]["random_forest"] raises
SerializeKeyError ==
    /\ pc = "serialize"
    /\ Absent(RandomForestKey)
    /\ files' = WriteFile(files, RfConfigPath, [items |-> <<>>, complete |-> FALSE])
    /\ pc' = "unwind"
    /\ error' = [type |-> "ConfigKeyError", at |-> Blocks[idx]]
    /\ UNCHANGED <<steps_par, removed, random_forest, env, active_steps, idx,
                   tmpExists, invoked>>

\* json.dump meets a value it cannot encode and raises, leaving a partial file
SerializeTypeError ==
    /\ pc = "serialize"
    /\ ~Absent(RandomForestKey)
    /\ ~JsonDump(random_forest).complete
    /\ files' = WriteFile(files, RfConfigPath, JsonDump(random_forest))
    /\ pc' = "unwind"
    /\ error' = [type |-> "TypeError", at |-> Blocks[idx]]
    /\ UNCHANGED <<steps_par, removed, random_forest, env, active_steps, idx,
                   tmpExists, invoked>>

\* the arguments of mlflow.run are evaluated and the run is started
InvokeStep ==
    /\ pc = "call"
    /\ \A k \in CallKeys(Blocks[idx]) : ~Absent(k)
    /\ invoked' = Append(invoked, Call(Blocks[idx]))
    /\ pc' = "running"
    /\ UNCHANGED <<steps_par, removed, random_forest, env, active_steps, idx,
                   tmpExists, files, error>>

\* a key read for the arguments of mlflow.run is absent
CallKeyError ==
    /\ pc = "call"
    /\ \E k \in CallKeys(Blocks[idx]) : Absent(k)
    /\ pc' = "unwind"
    /\ error' = [type |-> "ConfigKeyError", at |-> Blocks[idx]]
    /\ UNCHANGED <<steps_par, removed, random_forest, env, active_steps, idx,
                   tmpExists, files, invoked>>

RaisesNever(status) == FALSE

\* mlflow.run blocks and raises when the run did not succeed; go() has no handler
Raises(status) == status # "ok"

\* the blocking mlflow.run call returns or raises
StepReturns(status) ==
    /\ pc = "running"
    /\ invoked' = [invoked EXCEPT ![Len(invoked)].status = status]
    /\ IF Raises(status)
         THEN /\ pc' = "unwind"
              /\ error' = [type |-> "StepFailure", at |-> Blocks[idx]]
              /\ idx' = idx
         ELSE /\ pc' = "check"
              /\ idx' = idx + 1
              /\ error' = error
    /\ UNCHANGED <<steps_par, removed, random_forest, env, active_steps,
                   tmpExists, files>>

StepSucceeds == StepReturns("ok")

StepFails == StepReturns("failed")

\* the end of the with block is reached: the directory is cleaned up
ExitTmp ==
    /\ pc = "check"
    /\ idx = Len(Blocks) + 1
    /\ tmpExists' = TmpAfterExit(FALSE)
    /\ files' = IF tmpExists' THEN files ELSE RemoveTree(files, tmp_dir)
    /\ pc' = "done"
    /\ UNCHANGED <<steps_par, removed, random_forest, env, active_steps, idx,
                   invoked, error>>

\* an exception leaves the with block: the directory is cleaned up, then
\* the exception leaves go()
Unwind ==
    /\ pc = "unwind"
    /\ tmpExists' = TmpAfterExit(TRUE)
    /\ files' = IF tmpExists' THEN files ELSE RemoveTree(files, tmp_dir)
    /\ pc' = "raised"
    /\ UNCHANGED <<steps_par, removed, random_forest, env, active_steps, idx,
                   invoked, error>>

Next ==
    \/ SetProject
    \/ SetRunGroup
    \/ SelectSteps
    \/ SetupKeyError
    \/ EnterTmp
    \/ SkipStep
    \/ EnterStep
    \/ SerializeRfConfig
    \/ SerializeKeyError
    \/ SerializeTypeError
    \/ InvokeStep
    \/ CallKeyError
    \/ StepSucceeds
    \/ StepFails
    \/ ExitTmp
    \/ Unwind

Spec == Init /\ [][Next]_vars

----------------------------------------------------------------------------
(* Vocabulary of the properties *)

InvokedNames == [i \in DOMAIN invoked |-> invoked[i].step]

WasInvoked(name) == \E i \in DOMAIN invoked : invoked[i].step = name

\* position of a step name in the fixed order
Pos(name) == CHOOSE i \in DOMAIN Blocks : Blocks[i] = name

\* the name is an element of the comma-split value of main.steps
Selected(name) ==
    LET list == Split(steps_par) IN \E i \in DOMAIN list : list[i] = Str(name)

\* the step is requested by the configuration
Requested(name) ==
    IF steps_par = ALL
      THEN name \in {"download", "basic_cleaning", "data_check", "data_split",
                     "train_random_forest"}
      ELSE Selected(name)

\* the key, or a section on the way to it, is not in the configuration
KeyMissing(key) == removed # <<>> /\ IsPrefix(removed, key)

SetupBroken == \E k \in {ProjectKey, GroupKey, StepsKey} : KeyMissing(k)

\* some key the step's block reads is not in the configuration
Broken(name) ==
    \E k \in CallKeys(name)
            \cup (IF name = "train_random_forest" THEN {RandomForestKey} ELSE {}) :
        KeyMissing(k)

Terminal == pc \in {"done", "raised"}

----------------------------------------------------------------------------
\* C1: with main.steps = "all", a run in which nothing fails invokes exactly
\* download, basic_cleaning, data_check, data_split, train_random_forest in
\* that order, and test_regression_model is never invoked in any such run.
C1_AllRunsRegistryInOrder ==
    steps_par = ALL =>
        /\ ~WasInvoked("test_regression_model")
        /\ IsPrefix(InvokedNames,
                    <<"download", "basic_cleaning", "data_check", "data_split",
                      "train_random_forest">>)
        /\ pc = "done" =>
             InvokedNames = <<"download", "basic_cleaning", "data_check",
                              "data_split", "train_random_forest">>

C1_Witness ==
    /\ steps_par = ALL
    /\ pc = "done"
    /\ Len(invoked) = 5
    /\ \A i \in DOMAIN invoked : invoked[i].status = "ok"

\* C2: with an explicit comma-separated main.steps, a step is invoked only if
\* its name is an element of the list, every listed known step (the excluded
\* test_regression_model too) has been invoked when the run ends normally, and
\* the invocations follow the fixed order whatever the order in the string.
C2_ExplicitSelectionByMembership ==
    steps_par # ALL =>
        /\ \A i \in DOMAIN invoked : Selected(invoked[i].step)
        /\ \A i, j \in DOMAIN invoked :
               i < j => Pos(invoked[i].step) < Pos(invoked[j].step)
        /\ pc = "done" =>
             \A k \in DOMAIN Blocks : Selected(Blocks[k]) <=> WasInvoked(Blocks[k])
        /\ (pc = "done" /\ steps_par \in {<<"data_check", ",", "download">>,
                                          <<"download", ",", "data_check">>})
             => InvokedNames = <<"download", "data_check">>

C2_Witness ==
    /\ steps_par = <<"test_regression_model", ",", "download">>
    /\ pc = "done"
    /\ InvokedNames = <<"download", "test_regression_model">>

\* C3: fail-fast.  Every invocation but the last has completed successfully,
\* a failed invocation is the last one of the run and its failure is the
\* exception that leaves go(), no step is invoked twice, and a step is
\* invoked only after every active step before it has succeeded.
C3_FailFast ==
    /\ \A i \in DOMAIN invoked :
           /\ i < Len(invoked) => invoked[i].status = "ok"
           /\ invoked[i].status = "failed" =>
                /\ pc \in {"unwind", "raised"}
                /\ error = [type |-> "StepFailure", at |-> invoked[i].step]
           /\ \A j \in DOMAIN invoked : invoked[j].step = invoked[i].step => j = i
           /\ \A k \in 1..(Pos(invoked[i].step) - 1) :
                  IsActive(Blocks[k], active_steps) =>
                      \E j \in 1..(i - 1) :
                          invoked[j].step = Blocks[k] /\ invoked[j].status = "ok"
    /\ pc = "done" => \A i \in DOMAIN invoked : invoked[i].status = "ok"
    /\ error.type = "StepFailure" =>
           invoked # <<>> /\ invoked[Len(invoked)].status = "failed"

C3_Witness ==
    /\ pc = "raised"
    /\ error.type = "StepFailure"
    /\ invoked[Len(invoked)].status = "failed"
    /\ Len(invoked) = 2
    /\ \E k \in DOMAIN Blocks :
           IsActive(Blocks[k], active_steps) /\ ~WasInvoked(Blocks[k])

\* C4: the temporary directory exists from before the first step's block to
\* after the last one, and is absent in every terminal state of go():
\* normal completion, step failure and configuration error alike.
C4_TmpDirScoped ==
    /\ pc \in {"check", "serialize", "call", "running", "unwind"} => tmpExists
    /\ Terminal => ~tmpExists

C4_Witness ==
    /\ pc = "raised"
    /\ error.type = "StepFailure"
    /\ invoked # <<>>
    /\ ~tmpExists

\* C5: a missing setup key ends go() before any step; a missing key of an
\* active step S ends go() at S's block, with S and the later steps never
\* invoked and every active step before S invoked; a key missing only for
\* steps that are not active causes no configuration error.
C5_ConfigErrors ==
    LET requested == {k \in DOMAIN Blocks : Requested(Blocks[k])}
        broken == {k \in requested : Broken(Blocks[k])}
    IN
    /\ SetupBroken =>
         /\ invoked = <<>>
         /\ pc \in {"start", "set_group", "select", "raised"}
         /\ pc = "raised" => error = [type |-> "ConfigKeyError", at |-> "setup"]
    /\ broken # {} => pc # "done"
    /\ \A k \in broken : ~WasInvoked(Blocks[k])
    /\ (error.type = "ConfigKeyError" /\ error.at # "setup") =>
         /\ Pos(error.at) \in broken
         /\ \A k \in DOMAIN Blocks :
                IF k < Pos(error.at)
                  THEN k \in requested =>
                         \E i \in DOMAIN invoked :
                             invoked[i].step = Blocks[k] /\ invoked[i].status = "ok"
                  ELSE ~WasInvoked(Blocks[k])
    /\ (~SetupBroken /\ broken = {}) => error.type # "ConfigKeyError"

C5_Witness ==
    /\ pc = "raised"
    /\ error = [type |-> "ConfigKeyError", at |-> "data_check"]
    /\ InvokedNames = <<"download">>
    /\ removed = <<"data_check", "kl_threshold">>

\* C6: while train_random_forest runs, the file named by its rf_config
\* parameter parses back to the mapping modeling.random_forest denotes.
C6_HyperparameterRoundTrip ==
    \A i \in DOMAIN invoked :
        (invoked[i].step = "train_random_forest" /\ invoked[i].status = "running") =>
            \E f \in files :
                /\ f.path = invoked[i].parameters.rf_config.ref
                /\ f.content.complete
                /\ JsonLoad(f.content) = DictOf(random_forest)

C6_Witness ==
    /\ pc = "running"
    /\ invoked[Len(invoked)].step = "train_random_forest"
    /\ random_forest = <<<<"max_depth", PyFloat("0", "5")>>, <<"criterion", PyBool("True")>>>>

C8_RemotePinnedEntryMain ==
    \A i \in DOMAIN invoked :
        /\ invoked[i].uri.kind = "remote" => invoked[i].version # NoVersion
        /\ invoked[i].entry_point = "main"

\* C9 as stated: once derived, every element of the active list is a
\* registry step (test_regression_model counted as one).
C9_ActiveSubsetOfRegistry ==
    pc \notin {"start", "set_group", "select"} =>
        \A i \in DOMAIN active_steps :
            \E k \in DOMAIN Blocks : active_steps[i] = Str(Blocks[k])

\* C9 amended: for "all" the active list is exactly the five registry steps;
\* otherwise it is the comma-split list, elements outside the registry
\* included; the steps invoked are always among the six known steps.
C9_InvokedSubsetOfKnown ==
    /\ pc \notin {"start", "set_group", "select", "raised"} =>
         IF steps_par = ALL
           THEN active_steps = <<Str("download"), Str("basic_cleaning"),
                                 Str("data_check"), Str("data_split"),
                                 Str("train_random_forest")>>
           ELSE active_steps = Split(steps_par)
    /\ \A i \in DOMAIN invoked :
           /\ invoked[i].step \in Range(Blocks)
           /\ Requested(invoked[i].step)

C9_Witness ==
    /\ steps_par = <<"unknown_step", ",", "test_regression_model">>
    /\ pc = "done"
    /\ InvokedNames = <<"test_regression_model">>

\* C10: no step is invoked twice in a run; elements of main.steps that are
\* not exactly a known name cause no invocation and no error, so a selection
\* without any known name invokes nothing and ends normally.
C10_AtMostOnceAndJunkIgnored ==
    /\ \A i, j \in DOMAIN invoked : invoked[i].step = invoked[j].step => i = j
    /\ steps_par # ALL =>
         /\ \A i \in DOMAIN invoked : Selected(invoked[i].step)
         /\ error.at \in {"none", "setup"} \/ Selected(error.at)
         /\ (~SetupBroken /\ \A k \in DOMAIN Blocks : ~Selected(Blocks[k])) =>
              /\ invoked = <<>>
              /\ error = NoError
              /\ pc # "raised"

C10_Witness ==
    /\ steps_par = <<" ", "data_check", ",", "download">>
    /\ pc = "done"
    /\ InvokedNames = <<"download">>

====
